---- MODULE Spec2Model ----
(***************************************************************************)
(* A model of quiz.py, the command-line multiple-choice quiz runner:       *)
(* the answer shuffler, the even selection of questions over a catalog,    *)
(* the question loader, the lecture sort key, the catalog discovery and    *)
(* the question/answer/score loop.                                         *)
(*                                                                         *)
(* Python lists are 0-based and TLA+ sequences 1-based: an index of the    *)
(* program (correct_answer, correct_index, the value get_user_answer       *)
(* returns) keeps its 0-based value, and is used as s[index + 1].          *)
(* A file name is a sequence of one-character strings, so that the         *)
(* operations on names (lower(), title(), the regular expression, int())   *)
(* are computed as the program computes them.                              *)
(***************************************************************************)
EXTENDS Integers, Sequences, FiniteSets, TLC

VARIABLES
    \* shuffle_question_options called on its own
    sh_question,        \* the question_data argument
    sh_result,          \* what the call produced
    sh_pc,              \* "call" | "returned"
    \* select_questions_evenly
    lecture_info,       \* the catalog argument
    total_questions,    \* the total_questions argument
    selected,           \* the returned list
    sel_pc,             \* "call" | "returned"
    \* run_quiz
    questions,          \* the questions argument
    pc,                 \* "call" | "await" (inside input()) | "returned" | "raised"
    i,                  \* the number of the question of the loop, from 1
    indexed_options,    \* the shuffled (original index, option) pairs of question i
    shuffled_options,   \* of question i
    correct_index,      \* of question i, 0-based
    correct_answers,
    incorrect_answers,
    event,              \* what the last input() did: a line, or an exception
    answer,             \* the line last read, stripped
    answers,            \* the user_answer scored for each question so far
    displayed,          \* the numbers of the questions displayed so far
    last_message,       \* the message printed last, "" before any
    report,             \* the results report once printed, None before
    result,             \* the value returned, None for none
    raised,             \* the exception that left run_quiz, NoError for none
    \* load_questions
    ld_filename,        \* the filename argument
    ld_source,          \* what the file system holds under that name
    ld_result,          \* what the call produced
    ld_pc,              \* "call" | "returned" | "raised"
    \* sorted(..., key=lecture_sort_key)
    names,              \* the paths to sort
    sorted_names,       \* the sorted list
    sort_pc,            \* "call" | "returned"
    \* get_lecture_info
    fs,                 \* the file system: the source under each file
    extra_files,        \* the extra_files argument
    cat_result,         \* what the call produced
    cat_pc,             \* "call" | "returned" | "raised"
    \* main
    m_pc,               \* "subject_menu" | "lecture_menu" (inside input()) |
                        \* "quiz" (in run_quiz) | "returned" | "raised"
    dirs,               \* the directories that exist
    subject,            \* the subject chosen, None before
    mode,               \* "exit" | "lecture" | "final", "none" before
    selection,          \* the file of the lecture chosen, None for none
    choice,             \* the line last read at a menu, stripped
    menu_event,         \* what the last input() of a menu did
    main_message,       \* the message main or a menu printed last
    main_raised,        \* the exception that left main, NoError for none
    files_changed,      \* whether the files changed since main began
    \* the score line of the report
    score_correct,      \* correct_answers when the line is printed
    score_total,        \* total_questions when the line is printed
    score_percent,      \* the percentage shown, in tenths
    score_pc            \* "call" | "printed"

shVars   == <<sh_question, sh_result, sh_pc>>
selVars  == <<lecture_info, total_questions, selected, sel_pc>>
quizVars == <<questions, pc, i, indexed_options, shuffled_options, correct_index, correct_answers,
              incorrect_answers, event, answer, answers, displayed, last_message,
              report, result, raised>>
loadVars == <<ld_filename, ld_source, ld_result, ld_pc>>
sortVars == <<names, sorted_names, sort_pc>>
catVars  == <<fs, extra_files, cat_result, cat_pc>>
mainVars == <<m_pc, dirs, subject, mode, selection, choice, menu_event,
              main_message, main_raised, files_changed>>
scoreVars == <<score_correct, score_total, score_percent, score_pc>>
vars     == <<shVars, selVars, quizVars, loadVars, sortVars, catVars, mainVars,
             scoreVars>>

\* what an operation of one part leaves alone
notScore   == <<shVars, selVars, quizVars, loadVars, sortVars, catVars, mainVars>>
notShuffle == <<selVars, quizVars, loadVars, sortVars, catVars, mainVars,
               scoreVars>>
notSelect  == <<shVars, quizVars, loadVars, sortVars, catVars, mainVars,
               scoreVars>>
notQuiz    == <<shVars, selVars, loadVars, sortVars, catVars, mainVars,
               scoreVars>>
notLoad    == <<shVars, selVars, quizVars, sortVars, catVars, mainVars,
               scoreVars>>
notSort    == <<shVars, selVars, quizVars, loadVars, catVars, mainVars,
               scoreVars>>
notCatalog == <<shVars, selVars, quizVars, loadVars, sortVars, mainVars,
               scoreVars>>

(***************************************************************************)
(* Bounds of the model.                                                    *)
(***************************************************************************)
\* the longest options list of a question handed to the shuffler
MaxOptions == 3
\* the most entries of a catalog handed to select_questions_evenly
MaxLectures == 2
\* the most questions of one source
MaxCount == 2
\* the largest total_questions asked of select_questions_evenly
MaxTarget == 3
\* the most questions of a quiz run
MaxQuestions == 2
\* the most characters that follow the stem of a name to sort
MaxSuffix == 2
\* the most extra files of a subject
MaxExtras == 2
\* the most questions of a run whose score line is printed
MaxTotal == 80

(***************************************************************************)
(* Helpers.                                                                *)
(***************************************************************************)
Range(s) == {s[k] : k \in DOMAIN s}

Min(a, b) == IF a <= b THEN a ELSE b

Max(a, b) == IF a >= b THEN a ELSE b

\* the bijections of 1..n: the orders random.shuffle can leave n elements in
Perms(n) == {p \in [1..n -> 1..n] : \A a, b \in 1..n : a # b => p[a] # p[b]}

\* how often x occurs in s
Occurrences(s, x) == Cardinality({k \in DOMAIN s : s[k] = x})

\* the sequences of length 0..n over S
SeqsUpTo(S, n) == UNION {[1..k -> S] : k \in 0..n}

RECURSIVE SumSeq(_)
SumSeq(s) == IF s = <<>> THEN 0 ELSE Head(s) + SumSeq(Tail(s))

\* Python's None, where the other values are tuples or records
None == <<>>

\* no exception
NoError == "none"

(***************************************************************************)
(* shuffle_question_options  (quiz.py 64-73)                               *)
(*                                                                         *)
(* A question_data is [question, options, correct_answer]. random.shuffle  *)
(* leaves the (index, option) pairs in any order; next() raises            *)
(* StopIteration when no pair carries the index correct_answer.            *)
(***************************************************************************)
\* the outcome of the call when random.shuffle leaves the pairs in order p
ShuffleWith(question_data, p) ==
    LET options == question_data.options
        indexed == [k \in DOMAIN options |-> <<p[k] - 1, options[p[k]]>>]
        shuffled == [k \in DOMAIN options |-> indexed[k][2]]
        hits == {k \in DOMAIN options :
                    indexed[k][1] = question_data.correct_answer}
    IN  IF hits = {}
        THEN [raised |-> "StopIteration", indexed_options |-> indexed,
              shuffled_options |-> <<>>, correct_index |-> -1]
        ELSE [raised |-> NoError, indexed_options |-> indexed,
              shuffled_options |-> shuffled,
              correct_index |-> (CHOOSE k \in hits : \A h \in hits : k <= h) - 1]

\* a slip: the correct index is carried over instead of being looked up again
ShuffleKeepsIndex(question_data) ==
    {[ShuffleWith(question_data, p) EXCEPT
        !.correct_index = IF @ = -1 THEN -1 ELSE question_data.correct_answer] :
     p \in Perms(Len(question_data.options))}

\* every outcome the call can have
shuffle_question_options(question_data) ==
    {ShuffleWith(question_data, p) : p \in Perms(Len(question_data.options))}

\* the texts an option can carry (two options of a question may read the same)
OptionTexts == {"a", "b"}

\* the questions the shuffler is called on: any options list, any
\* correct_answer, also one that is no index of the list
ShuffleInputs ==
    {[question |-> "q", options |-> o, correct_answer |-> c] :
        o \in SeqsUpTo(OptionTexts, MaxOptions) \ {<<>>},
        c \in -1..MaxOptions}

ShuffleIdle ==
    /\ sh_question = [question |-> "q", options |-> <<"a">>, correct_answer |-> 0]
    /\ sh_result = None
    /\ sh_pc = "idle"

InitShuffle ==
    /\ sh_question \in ShuffleInputs
    /\ sh_result = None
    /\ sh_pc = "call"

ShuffleCall ==
    /\ sh_pc = "call"
    /\ sh_result' \in shuffle_question_options(sh_question)
    /\ sh_pc' = "returned"
    /\ UNCHANGED <<sh_question, notShuffle>>

(***************************************************************************)
(* Names of sources.                                                       *)
(***************************************************************************)
LowerCase == <<"a", "c", "e", "l", "n", "o", "r", "s", "t", "u", "x">>
UpperCase == <<"A", "C", "E", "L", "N", "O", "R", "S", "T", "U", "X">>
Digits    == <<"0", "1", "2", "3", "4", "5", "6", "7", "8", "9">>

IsLower(c) == c \in Range(LowerCase)
IsUpper(c) == c \in Range(UpperCase)
IsAlpha(c) == IsLower(c) \/ IsUpper(c)
IsDigit(c) == c \in Range(Digits)

IndexIn(s, c) == CHOOSE k \in DOMAIN s : s[k] = c

\* str.lower() and str.upper() of one character
LowerChar(c) == IF IsUpper(c) THEN LowerCase[IndexIn(UpperCase, c)] ELSE c
UpperChar(c) == IF IsLower(c) THEN UpperCase[IndexIn(LowerCase, c)] ELSE c

\* str.lower()
Lower(s) == [k \in DOMAIN s |-> LowerChar(s[k])]

\* str.replace('_', ' ')
ReplaceUnderscores(s) == [k \in DOMAIN s |-> IF s[k] = "_" THEN " " ELSE s[k]]

\* str.title(): a letter that follows no letter is upper-cased, a letter
\* that follows a letter is lower-cased, anything else is kept
Title(s) ==
    [k \in DOMAIN s |->
        IF ~IsAlpha(s[k]) THEN s[k]
        ELSE IF k = 1 \/ ~IsAlpha(s[k - 1]) THEN UpperChar(s[k])
        ELSE LowerChar(s[k])]

\* the 'name' of a catalog entry (quiz.py 161), from the base name of its file
DisplayName(base) == Title(ReplaceUnderscores(base))

LECTURE == <<"l", "e", "c", "t", "u", "r", "e">>

(***************************************************************************)
(* A path is [dir, base, spelling]: the file base.json of directory dir,   *)
(* written plainly ("dir/base.json") or with a detour ("dir/./base.json"); *)
(* dir is "" in a relative path. Two paths are the same string when the    *)
(* records are equal, and lead to the same file when dir and base are      *)
(* equal.                                                                  *)
(***************************************************************************)
Path(dir, base) == [dir |-> dir, base |-> base, spelling |-> "plain"]

\* os.path.splitext(os.path.basename(filepath))[0]
BaseOf(filepath) == filepath.base

\* the directory of the subject
SubjectDir == "subject"

(***************************************************************************)
(* select_questions_evenly  (quiz.py 167-207)                              *)
(*                                                                         *)
(* A catalog entry is [filename, name, count]. The questions of a source   *)
(* are told apart by where they come from: question k of file f is         *)
(* [file |-> f, k |-> k]; load_questions(f) returns them in file order.    *)
(***************************************************************************)
\* the sources a catalog is drawn from; the last two have the same name
SelectFiles ==
    { Path(SubjectDir, LECTURE \o <<"1">>), Path(SubjectDir, LECTURE \o <<"_", "x">>),
      Path(SubjectDir, LECTURE \o <<" ", "x">>) }

\* load_questions on a well-formed source of count questions
LoadedQuestions(info) == [k \in 1..info.count |-> [file |-> info.filename, k |-> k]]

\* quiz.py 170-175: every question of every entry, tagged with the entry's name
RECURSIVE TagAll(_)
TagAll(infos) ==
    IF infos = <<>> THEN <<>>
    ELSE LET info == Head(infos)
             lecture_questions == LoadedQuestions(info)
         IN  [k \in DOMAIN lecture_questions |->
                 [q |-> lecture_questions[k], source_lecture |-> info.name]]
             \o TagAll(Tail(infos))

\* quiz.py 187: the tagged questions an entry draws from
QuestionsOf(all_questions, info) ==
    SelectSeq(all_questions, LAMBDA t : t.source_lecture = info.name)

\* random.sample(questions, count): count different positions, in any order
Sample(lecture_questions, count) ==
    {[k \in 1..count |-> lecture_questions[pos[k]]] :
        pos \in {f \in [1..count -> DOMAIN lecture_questions] :
                    \A a, b \in 1..count : a # b => f[a] # f[b]}}

\* a slip: the extra unit is handed out without being taken from the remainder
CountAskedKeepsRemainder(base_per_lecture, remainder) ==
    [count |-> base_per_lecture + (IF remainder > 0 THEN 1 ELSE 0),
     remainder |-> remainder]

\* quiz.py 191-194: the count asked of an entry, and the remainder after it
CountAsked(base_per_lecture, remainder) ==
    [count |-> base_per_lecture + (IF remainder > 0 THEN 1 ELSE 0),
     remainder |-> IF remainder > 0 THEN remainder - 1 ELSE remainder]

\* quiz.py 186-200: the lists `selected` can be after the entries from k on
\* were handled, starting from acc with `remainder` extra units left
RECURSIVE SelectedFrom(_, _, _, _, _, _)
SelectedFrom(infos, all_questions, base_per_lecture, k, remainder, acc) ==
    IF k > Len(infos) THEN {acc}
    ELSE LET lecture_questions == QuestionsOf(all_questions, infos[k])
         IN  IF lecture_questions = <<>>
             THEN SelectedFrom(infos, all_questions, base_per_lecture,
                               k + 1, remainder, acc)
             ELSE LET asked == CountAsked(base_per_lecture, remainder)
                      count == Min(asked.count, Len(lecture_questions))
                  IN  IF count > 0
                      THEN UNION {SelectedFrom(infos, all_questions, base_per_lecture,
                                               k + 1, asked.remainder, acc \o s) :
                                  s \in Sample(lecture_questions, count)}
                      ELSE SelectedFrom(infos, all_questions, base_per_lecture,
                                        k + 1, asked.remainder, acc)

\* every list the call can return: the samples, shuffled, the tag dropped
select_questions_evenly(infos, total) ==
    LET all_questions == TagAll(infos)
    IN  IF all_questions = <<>> THEN {<<>>}
        ELSE LET num_lectures == Len(infos)
                 base_per_lecture == total \div num_lectures
                 remainder == total % num_lectures
             IN  UNION {{[k \in DOMAIN s |-> s[p[k]].q] : p \in Perms(Len(s))} :
                        s \in SelectedFrom(infos, all_questions, base_per_lecture,
                                           1, remainder, <<>>)}

\* quiz.py 186-196 on the numbers alone: how many questions each entry takes
RECURSIVE CountsTaken(_, _, _, _)
CountsTaken(infos, base_per_lecture, k, remainder) ==
    IF k > Len(infos) THEN <<>>
    ELSE LET available ==
                 SumSeq([j \in DOMAIN infos |->
                            IF infos[j].name = infos[k].name THEN infos[j].count
                            ELSE 0])
             asked == CountAsked(base_per_lecture, remainder)
         IN  IF available = 0
             THEN <<0>> \o CountsTaken(infos, base_per_lecture, k + 1, remainder)
             ELSE <<Max(0, Min(asked.count, available))>>
                      \o CountsTaken(infos, base_per_lecture, k + 1, asked.remainder)

\* the total_questions of the final check (quiz.py 167, 308)
FinalCheckTotal == 40

\* the catalogs the call is made on: entries of different files, each with
\* the name get_lecture_info gives it and at least one question
Catalogs ==
    {c \in SeqsUpTo([filename : SelectFiles, count : 1..MaxCount], MaxLectures) :
        \A a, b \in DOMAIN c : a # b => c[a].filename # c[b].filename}

Entry(e) == [filename |-> e.filename, name |-> DisplayName(BaseOf(e.filename)),
             count |-> e.count]

SelectIdle ==
    /\ lecture_info = <<>>
    /\ total_questions = 0
    /\ selected = <<>>
    /\ sel_pc = "idle"

InitSelect ==
    /\ \E c \in Catalogs : lecture_info = [k \in DOMAIN c |-> Entry(c[k])]
    /\ total_questions \in 0..MaxTarget
    /\ selected = <<>>
    /\ sel_pc = "call"

SelectCall ==
    /\ sel_pc = "call"
    /\ selected' \in select_questions_evenly(lecture_info, total_questions)
    /\ sel_pc' = "returned"
    /\ UNCHANGED <<lecture_info, total_questions, notSelect>>

(***************************************************************************)
(* get_user_answer  (quiz.py 49-62): what is typed at the prompt           *)
(***************************************************************************)
\* str.strip() of a line in which the only white space is the blank
RECURSIVE StripLeft(_)
StripLeft(s) == IF s # <<>> /\ Head(s) = " " THEN StripLeft(Tail(s)) ELSE s

RECURSIVE StripRight(_)
StripRight(s) ==
    IF s # <<>> /\ s[Len(s)] = " " THEN StripRight(SubSeq(s, 1, Len(s) - 1)) ELSE s

Strip(s) == StripRight(StripLeft(s))

DigitValue(c) == IndexIn(Digits, c) - 1

\* the value of a run of digits and underscores, read in base ten
RECURSIVE DecimalValue(_)
DecimalValue(s) ==
    IF s = <<>> THEN 0
    ELSE IF s[Len(s)] = "_" THEN DecimalValue(SubSeq(s, 1, Len(s) - 1))
    ELSE 10 * DecimalValue(SubSeq(s, 1, Len(s) - 1)) + DigitValue(s[Len(s)])

\* int(s) of a stripped s: an optional sign, then digits, a single underscore
\* allowed between two digits; anything else is a ValueError
ParseInt(s) ==
    LET signed == s # <<>> /\ s[1] \in {"+", "-"}
        body == IF signed THEN Tail(s) ELSE s
        wellFormed ==
            /\ body # <<>>
            /\ \A k \in DOMAIN body :
                  \/ IsDigit(body[k])
                  \/ /\ body[k] = "_"
                     /\ 1 < k /\ k < Len(body)
                     /\ IsDigit(body[k - 1]) /\ IsDigit(body[k + 1])
    IN  IF ~wellFormed THEN [raised |-> "ValueError", value |-> 0]
        ELSE [raised |-> NoError,
              value |-> IF signed /\ s[1] = "-" THEN 0 - DecimalValue(body)
                        ELSE DecimalValue(body)]

\* a slip: the lower end of the range is off by one
InRangeFromZero(answer_num, num_options) ==
    0 <= answer_num /\ answer_num <= num_options

\* quiz.py 54
InRange(answer_num, num_options) ==
    1 <= answer_num /\ answer_num <= num_options

\* list[index] of Python, for the indices that do not raise
PyIndex(list, index) ==
    IF index < 0 THEN list[Len(list) + index + 1] ELSE list[index + 1]

\* the lines typed at the prompt
Inputs ==
    { <<>>, <<"x">>, <<"0">>, <<"1">>, <<"2">>, <<"3">>, <<"4">>,
      <<"-", "1">>, <<"+", "2">>, <<" ", "2", " ">>, <<"0", "1">>,
      <<"1", "_", "0">>, <<"1", ".", "5">>, <<"1", " ", "2">>, <<"_", "1">> }

(***************************************************************************)
(* run_quiz  (quiz.py 75-129)                                              *)
(*                                                                         *)
(* A run stops only inside input(): an action is the call up to the first  *)
(* prompt, or what one line, one interrupt or one end of input at the      *)
(* prompt leads to, up to the next prompt or the return.                   *)
(***************************************************************************)
\* the questions a run is made of; the last has two options of the same text
QuizQuestions ==
    { [question |-> "q1", options |-> <<"a", "b">>, correct_answer |-> 0],
      [question |-> "q2", options |-> <<"a", "b", "c">>, correct_answer |-> 2],
      [question |-> "q3", options |-> <<"a", "a">>, correct_answer |-> 1] }

\* a slip: the guard against an empty run is missing
NoQuestionsUnguarded(qs) == FALSE

\* quiz.py 76: `if not questions`
NoQuestions(qs) == qs = <<>>

RECURSIVE GCD(_, _)
GCD(a, b) == IF b = 0 THEN a ELSE GCD(b, a % b)

RECURSIVE IsPowerOfTwo(_)
IsPowerOfTwo(n) == n = 1 \/ (n > 1 /\ n % 2 = 0 /\ IsPowerOfTwo(n \div 2))

\* a slip: the decimals after the first are cut off
PercentTenthsTruncated(correct, total) == {(1000 * correct) \div total}

\* quiz.py 118, f"{correct_answers/total_questions*100:.1f}", in tenths of a
\* percent: the values the text can show. The quotient and the product are
\* floating-point numbers, each within one rounding of the exact value, and
\* the format gives the tenth nearest to the number it is handed, the even
\* one of two equally near. Off a tie the rounding errors are too small to
\* matter. On a tie the quotient is exact when the reduced denominator is a
\* power of two, and then so is the product; otherwise the product may fall
\* on either side of the tie.
PercentTenths(correct, total) ==
    LET n == 1000 * correct
        q == n \div total
        r == n % total
    IN  IF 2 * r < total THEN {q}
        ELSE IF 2 * r > total THEN {q + 1}
        ELSE IF IsPowerOfTwo(total \div GCD(correct, total))
        THEN {IF q % 2 = 0 THEN q ELSE q + 1}
        ELSE {q, q + 1}

\* quiz.py 112-129: the report and the return, after the loop
Complete(correct, mistakes) ==
    LET total == Len(questions)
    IN  /\ correct_answers' = correct
        /\ incorrect_answers' = mistakes
        /\ IF total = 0
           THEN /\ raised' = "ZeroDivisionError"
                /\ pc' = "raised"
                /\ last_message' = "QUIZ RESULTS"
                /\ UNCHANGED <<report, result>>
           ELSE /\ \E percent_tenths \in PercentTenths(correct, total) :
                     report' = [total |-> total, correct |-> correct,
                                incorrect |-> total - correct,
                                percent_tenths |-> percent_tenths,
                                mistakes |-> mistakes]
                /\ result' = <<correct, total>>
                /\ pc' = "returned"
                /\ last_message' = "QUIZ RESULTS"
                /\ UNCHANGED raised
        /\ UNCHANGED <<i, indexed_options, shuffled_options, correct_index, displayed>>

\* a slip: the loop ends one question short
MoreQuestionsButLast(n, qs) == n < Len(qs)

\* quiz.py 90: the loop has a question n to go to
MoreQuestions(n, qs) == n <= Len(qs)

\* quiz.py 90-94: question n is shuffled and displayed and the prompt is
\* shown, or the loop is over
ContinueFrom(n, correct, mistakes) ==
    IF MoreQuestions(n, questions)
    THEN \E r \in shuffle_question_options(questions[n]) :
            /\ i' = n
            /\ indexed_options' = r.indexed_options
            /\ shuffled_options' = r.shuffled_options
            /\ correct_index' = r.correct_index
            /\ displayed' = Append(displayed, n)
            /\ correct_answers' = correct
            /\ incorrect_answers' = mistakes
            /\ pc' = "await"
            /\ UNCHANGED <<report, result, raised, last_message>>
    ELSE Complete(correct, mistakes)

QuizIdle ==
    /\ questions = <<>>
    /\ pc = "idle"
    /\ i = 0
    /\ indexed_options = <<>>
    /\ shuffled_options = <<>>
    /\ correct_index = 0
    /\ correct_answers = 0
    /\ incorrect_answers = <<>>
    /\ event = "none"
    /\ answer = <<>>
    /\ answers = <<>>
    /\ displayed = <<>>
    /\ last_message = ""
    /\ report = None
    /\ result = None
    /\ raised = NoError

InitQuiz ==
    /\ questions \in SeqsUpTo(QuizQuestions, MaxQuestions)
    /\ pc = "call"
    /\ i = 0
    /\ indexed_options = <<>>
    /\ shuffled_options = <<>>
    /\ correct_index = 0
    /\ correct_answers = 0
    /\ incorrect_answers = <<>>
    /\ event = "none"
    /\ answer = <<>>
    /\ answers = <<>>
    /\ displayed = <<>>
    /\ last_message = ""
    /\ report = None
    /\ result = None
    /\ raised = NoError

\* quiz.py 75-94: the call, up to the first prompt
RunQuizCall ==
    /\ pc = "call"
    /\ UNCHANGED <<questions, event, answer, answers, notQuiz>>
    /\ IF NoQuestions(questions)
       THEN /\ last_message' = "No questions available!"
            /\ pc' = "returned"
            /\ UNCHANGED <<i, indexed_options, shuffled_options, correct_index, correct_answers,
                           incorrect_answers, displayed, report, result, raised>>
       ELSE ContinueFrom(1, 0, <<>>)

\* a slip: the mistake takes the place of the list instead of joining it
RecordedAlone(mistakes, entry) == <<entry>>

\* quiz.py 105: incorrect_answers.append
Recorded(mistakes, entry) == Append(mistakes, entry)

\* a slip: the number typed, from 1, is compared with the index, from 0
AnsweredCorrectlyFromOne(user_answer, index) == user_answer + 1 = index

\* quiz.py 99
AnsweredCorrectly(user_answer, index) == user_answer = index

\* quiz.py 96-110: the answer is scored, then the loop goes on
Score(user_answer) ==
    /\ answers' = Append(answers, user_answer)
    /\ IF AnsweredCorrectly(user_answer, correct_index)
       THEN ContinueFrom(i + 1, correct_answers + 1, incorrect_answers)
       ELSE LET correct_option == PyIndex(shuffled_options, correct_index)
            IN  ContinueFrom(i + 1, correct_answers,
                    Recorded(incorrect_answers,
                           [question_num |-> i,
                            question |-> questions[i].question,
                            your_answer |-> PyIndex(shuffled_options, user_answer),
                            correct_answer |-> correct_option]))

\* quiz.py 52-59, 94-110: a line is read at the prompt
AnswerLine(line) ==
    /\ pc = "await"
    /\ event' = "line"
    /\ answer' = Strip(line)
    /\ UNCHANGED <<questions, notQuiz>>
    /\ LET answer_num == ParseInt(Strip(line))
       IN  IF answer_num.raised # NoError
           THEN /\ last_message' = "Please enter a valid number."
                /\ UNCHANGED <<pc, i, indexed_options, shuffled_options, correct_index,
                               correct_answers, incorrect_answers, answers,
                               displayed, report, result, raised>>
           ELSE IF ~InRange(answer_num.value, Len(shuffled_options))
           THEN /\ last_message' = "Please enter a number between 1 and n."
                /\ UNCHANGED <<pc, i, indexed_options, shuffled_options, correct_index,
                               correct_answers, incorrect_answers, answers,
                               displayed, report, result, raised>>
           ELSE Score(answer_num.value - 1)

\* a slip: the interrupted run leaves the loop and goes on to the report
AnswerInterruptBreaks ==
    /\ pc = "await"
    /\ event' = "KeyboardInterrupt"
    /\ UNCHANGED <<questions, answer, answers, notQuiz>>
    /\ Complete(correct_answers, incorrect_answers)

\* quiz.py 60-62, 96-97: the prompt is interrupted; get_user_answer returns
\* None and run_quiz returns
AnswerInterrupt ==
    /\ pc = "await"
    /\ event' = "KeyboardInterrupt"
    /\ last_message' = "Quiz cancelled by user."
    /\ pc' = "returned"
    /\ UNCHANGED <<questions, i, indexed_options, shuffled_options, correct_index, correct_answers,
                   incorrect_answers, answer, answers, displayed, report, result,
                   raised, notQuiz>>

\* quiz.py 52: the input ends; input() raises EOFError, which nothing catches
AnswerEndOfInput ==
    /\ pc = "await"
    /\ event' = "EOFError"
    /\ raised' = "EOFError"
    /\ pc' = "raised"
    /\ UNCHANGED <<questions, i, indexed_options, shuffled_options, correct_index, correct_answers,
                   incorrect_answers, answer, answers, displayed, last_message,
                   report, result, notQuiz>>

(***************************************************************************)
(* The score line of the report  (quiz.py 118) on its own, for the counts  *)
(* a completed run can end with.                                           *)
(***************************************************************************)
ScoreIdle ==
    /\ score_correct = 0
    /\ score_total = 1
    /\ score_percent = 0
    /\ score_pc = "idle"

InitScore ==
    /\ score_total \in 1..MaxTotal
    /\ score_correct \in 0..score_total
    /\ score_percent = 0
    /\ score_pc = "call"

ScoreLine ==
    /\ score_pc = "call"
    /\ score_percent' \in PercentTenths(score_correct, score_total)
    /\ score_pc' = "printed"
    /\ UNCHANGED <<score_correct, score_total, notScore>>

(***************************************************************************)
(* load_questions  (quiz.py 26-36)                                         *)
(*                                                                         *)
(* What a name leads to in the file system is a source: no file, a         *)
(* directory, a file that may not be read, a file that is no UTF-8, or a   *)
(* file with text. The text is no JSON, or the JSON value it parses to:    *)
(* [type, items] with in items the elements of an array, the characters    *)
(* of a string, the member names of an object (and for an object whether   *)
(* it has the member "questions" and that member's value), and for a       *)
(* number its value.                                                       *)
(***************************************************************************)
JsonNull == [type |-> "null", items |-> <<>>]

JsonNumber(n) == [type |-> "number", items |-> <<>>, value |-> n]

JsonString(chars) == [type |-> "string", items |-> chars]

JsonScalars ==
    { JsonNull, JsonNumber(0), JsonNumber(1), JsonString(<<>>),
      JsonString(<<"a", "b">>) }

JsonArray(items) == [type |-> "array", items |-> items]

\* a scalar or an array of questions
JsonNonObjects ==
    JsonScalars \cup { JsonArray(qs) : qs \in SeqsUpTo(QuizQuestions, MaxCount) }

\* an object without the member "questions": {} or {"k": ...}
JsonPlainObject == [type |-> "object", items |-> <<>>, has_questions |-> FALSE]

JsonOtherObject == [type |-> "object", items |-> <<"k">>, has_questions |-> FALSE]

\* an object whose only member is "questions", of value v
JsonQuestionsObject(v) ==
    [type |-> "object", items |-> <<"questions">>, has_questions |-> TRUE,
     questions |-> v]

JsonValues ==
    JsonNonObjects
        \cup { JsonPlainObject, JsonOtherObject }
        \cup { JsonQuestionsObject(v) :
                  v \in JsonNonObjects \cup {JsonPlainObject, JsonOtherObject} }

Sources ==
    { [state |-> st] : st \in {"missing", "directory", "unreadable",
                               "undecodable", "unparsable"} }
        \cup { [state |-> "json", data |-> v] : v \in JsonValues }

\* the file of n well-formed questions
QuestionFile(n) ==
    [state |-> "json",
     data |-> JsonQuestionsObject(JsonArray([k \in 1..n |-> [question |-> "q",
                 options |-> <<"a", "b">>, correct_answer |-> 0]]))]

\* quiz.py 26-36: open() raises an OSError, the decoding a UnicodeDecodeError,
\* json.load a JSONDecodeError, data.get an AttributeError; FileNotFoundError
\* and JSONDecodeError are caught
load_questions(filename, source) ==
    CASE source.state = "missing" ->
            [raised |-> NoError, value |-> JsonArray(<<>>),
             message |-> [text |-> "Error: File not found!", filename |-> filename]]
      [] source.state = "directory" ->
            [raised |-> "IsADirectoryError", value |-> None, message |-> None]
      [] source.state = "unreadable" ->
            [raised |-> "PermissionError", value |-> None, message |-> None]
      [] source.state = "undecodable" ->
            [raised |-> "UnicodeDecodeError", value |-> None, message |-> None]
      [] source.state = "unparsable" ->
            [raised |-> NoError, value |-> JsonArray(<<>>),
             message |-> [text |-> "Error: Invalid JSON!", filename |-> filename]]
      [] source.state = "json" ->
            IF source.data.type # "object"
            THEN [raised |-> "AttributeError", value |-> None, message |-> None]
            ELSE [raised |-> NoError, message |-> None,
                  value |-> IF source.data.has_questions THEN source.data.questions
                            ELSE JsonArray(<<>>)]

LoadIdle ==
    /\ ld_filename = Path(SubjectDir, LECTURE)
    /\ ld_source = [state |-> "missing"]
    /\ ld_result = None
    /\ ld_pc = "idle"

InitLoad ==
    /\ ld_filename \in SelectFiles
    /\ ld_source \in Sources
    /\ ld_result = None
    /\ ld_pc = "call"

LoadCall ==
    /\ ld_pc = "call"
    /\ ld_result' = load_questions(ld_filename, ld_source)
    /\ ld_pc' = IF ld_result'.raised = NoError THEN "returned" ELSE "raised"
    /\ UNCHANGED <<ld_filename, ld_source, notLoad>>

(***************************************************************************)
(* lecture_sort_key and sorted()  (quiz.py 131-145)                        *)
(***************************************************************************)
\* the characters of the names, in the order of their code points
CodeOrder ==
    <<" ">> \o Digits \o UpperCase \o <<"_">> \o LowerCase

Ord(c) == IndexIn(CodeOrder, c)

\* s < t for two Python strings
RECURSIVE StrLess(_, _)
StrLess(s, t) ==
    IF t = <<>> THEN FALSE
    ELSE IF s = <<>> THEN TRUE
    ELSE IF Head(s) # Head(t) THEN Ord(Head(s)) < Ord(Head(t))
    ELSE StrLess(Tail(s), Tail(t))

AllDigits(s) == s # <<>> /\ \A k \in DOMAIN s : IsDigit(s[k])

\* LECTURE_FILENAME_RE.match(base): ^lecture(\d+)(?:_(\d+))?$, ignoring case,
\* over names of ASCII letters and digits, "_" and " "; group2 is <<>> when
\* the second group did not take part
MatchLecture(base) ==
    LET rest == SubSeq(base, Len(LECTURE) + 1, Len(base))
        marks == {k \in DOMAIN rest : rest[k] = "_"}
        cut == IF marks = {} THEN Len(rest) + 1
               ELSE CHOOSE k \in marks : \A m \in marks : k <= m
        group1 == SubSeq(rest, 1, cut - 1)
        group2 == SubSeq(rest, cut + 1, Len(rest))
        matched ==
            /\ Len(base) > Len(LECTURE)
            /\ Lower(SubSeq(base, 1, Len(LECTURE))) = LECTURE
            /\ AllDigits(group1)
            /\ marks # {} => AllDigits(group2)
    IN  IF matched THEN [matched |-> TRUE, group1 |-> group1, group2 |-> group2]
        ELSE [matched |-> FALSE, group1 |-> <<>>, group2 |-> <<>>]

\* a number of a key: an int, or float('inf')
Finite(n) == [inf |-> FALSE, n |-> n]
Infinity  == [inf |-> TRUE, n |-> 0]

NumLess(x, y) == IF x.inf THEN FALSE ELSE IF y.inf THEN TRUE ELSE x.n < y.n

\* quiz.py 133-140
lecture_sort_key(filepath) ==
    LET base == BaseOf(filepath)
        match == MatchLecture(base)
    IN  IF match.matched
        THEN LET primary == DecimalValue(match.group1)
                 secondary == IF match.group2 # <<>> THEN DecimalValue(match.group2)
                              ELSE 0
             IN  <<Finite(primary), Finite(secondary), Lower(base)>>
        ELSE <<Infinity, Infinity, Lower(base)>>

\* a < b for two keys, as Python compares tuples
KeyLess(a, b) ==
    IF a[1] # b[1] THEN NumLess(a[1], b[1])
    ELSE IF a[2] # b[2] THEN NumLess(a[2], b[2])
    ELSE StrLess(a[3], b[3])

\* sorted(files, key=lecture_sort_key): the sort is stable, so an element
\* goes behind the elements that are not greater
RECURSIVE InsertByKey(_, _)
InsertByKey(done, x) ==
    IF done = <<>> THEN <<x>>
    ELSE IF KeyLess(lecture_sort_key(x), lecture_sort_key(Head(done)))
    THEN <<x>> \o done
    ELSE <<Head(done)>> \o InsertByKey(Tail(done), x)

RECURSIVE SortedByKey(_)
SortedByKey(files) ==
    IF files = <<>> THEN <<>>
    ELSE InsertByKey(SortedByKey(SubSeq(files, 1, Len(files) - 1)),
                     files[Len(files)])

\* the names to sort: a stem and up to MaxSuffix characters behind it
Stems == { LECTURE, <<"L">> \o Tail(LECTURE), <<"n", "o", "t", "e", "s">> }

SortableNames ==
    { stem \o suffix : stem \in Stems,
                       suffix \in SeqsUpTo({"1", "2", "_", "a"}, MaxSuffix) }

\* the list of the specification's example
ExampleNames ==
    << LECTURE \o <<"2">>, LECTURE \o <<"1">>, LECTURE \o <<"1", "_", "2">>,
       LECTURE \o <<"1", "0">>, <<"n", "o", "t", "e", "s">> >>

ExampleSorted ==
    << LECTURE \o <<"1">>, LECTURE \o <<"1", "_", "2">>, LECTURE \o <<"2">>,
       LECTURE \o <<"1", "0">>, <<"n", "o", "t", "e", "s">> >>

PathsOf(bases) == [k \in DOMAIN bases |-> Path(SubjectDir, bases[k])]

SortIdle ==
    /\ names = <<>>
    /\ sorted_names = <<>>
    /\ sort_pc = "idle"

InitSort ==
    /\ \/ \E a, b \in SortableNames : a # b /\ names = PathsOf(<<a, b>>)
       \/ names = PathsOf(ExampleNames)
    /\ sorted_names = <<>>
    /\ sort_pc = "call"

SortCall ==
    /\ sort_pc = "call"
    /\ sorted_names' = SortedByKey(names)
    /\ sort_pc' = "returned"
    /\ UNCHANGED <<names, notSort>>

(***************************************************************************)
(* find_lecture_files and get_lecture_info  (quiz.py 142-165)              *)
(***************************************************************************)
\* the file a path leads to
FileOf(path) == [dir |-> path.dir, base |-> path.base]

\* the files there can be: three in the subject's directory, one elsewhere
CatalogFiles ==
    { FileOf(Path(SubjectDir, LECTURE \o <<"2">>)),
      FileOf(Path(SubjectDir, LECTURE \o <<"1", "0">>)),
      FileOf(Path(SubjectDir, LECTURE \o <<"_", "x">>)),
      FileOf(Path("other", LECTURE \o <<"1">>)) }

\* what a file can be: absent, no JSON, a JSON array, an object whose
\* "questions" is a number or null, or an object of no, one or two questions
CatalogSources ==
    { [state |-> "missing"], [state |-> "unparsable"],
      [state |-> "json", data |-> JsonArray(<<>>)],
      [state |-> "json", data |-> JsonQuestionsObject(JsonNumber(1))],
      [state |-> "json", data |-> JsonQuestionsObject(JsonNull)],
      QuestionFile(0), QuestionFile(1), QuestionFile(2) }

\* the file systems there can be: the first file of the directory is any of
\* these, the other files are absent, empty or well formed
FileSystems ==
    {files \in [CatalogFiles -> CatalogSources] :
        \A f \in CatalogFiles :
            f # FileOf(Path(SubjectDir, LECTURE \o <<"2">>)) =>
                files[f] \in {[state |-> "missing"], QuestionFile(0),
                              QuestionFile(1), QuestionFile(2)}}

\* the paths a subject lists as extra files: a file elsewhere, a file of the
\* directory as glob spells it and with a detour, and a relative path
ExtraPaths ==
    { Path("other", LECTURE \o <<"1">>),
      Path(SubjectDir, LECTURE \o <<"2">>),
      [dir |-> SubjectDir, base |-> LECTURE \o <<"2">>, spelling |-> "detour"],
      Path("", LECTURE \o <<"_", "x">>) }

\* os.path.exists
Exists(files, path) ==
    FileOf(path) \in DOMAIN files /\ files[FileOf(path)].state # "missing"

\* glob.glob(directory/lecture*.json): the files of the directory whose name
\* begins with "lecture" (in lower case, as on a file system that tells the
\* cases apart), each spelled plainly
Globbed(files, directory) ==
    { Path(f.dir, f.base) : f \in {g \in DOMAIN files :
          /\ g.dir = directory
          /\ files[g].state # "missing"
          /\ Len(g.base) >= Len(LECTURE)
          /\ SubSeq(g.base, 1, Len(LECTURE)) = LECTURE} }

\* the orders glob can list a set of paths in
Listings(paths) ==
    {l \in [1..Cardinality(paths) -> paths] :
        \A a, b \in DOMAIN l : a # b => l[a] # l[b]}

\* quiz.py 142-145, for the order glob listed the files in
find_lecture_files(listing) == SortedByKey(listing)

\* quiz.py 151: a relative path is taken from the directory
FullPath(directory, filepath) ==
    IF filepath.dir # "" THEN filepath
    ELSE [filepath EXCEPT !.dir = directory]

\* quiz.py 149-153
RECURSIVE WithExtras(_, _, _, _)
WithExtras(files, directory, lecture_files, extras) ==
    IF extras = <<>> THEN lecture_files
    ELSE LET full_path == FullPath(directory, Head(extras))
         IN  WithExtras(files, directory,
                IF Exists(files, full_path) /\ full_path \notin Range(lecture_files)
                THEN Append(lecture_files, full_path)
                ELSE lecture_files,
                Tail(extras))

\* a test that takes every file that loads, whatever it gives
TruthyAlways(value) == TRUE

\* quiz.py 158, "if questions:": None, zero, and the empty string, list and
\* dict are false, every other value is true
Truthy(value) ==
    CASE value.type = "null" -> FALSE
      [] value.type = "number" -> value.value # 0
      [] OTHER -> value.items # <<>>

\* quiz.py 162, len(questions): a number has no len()
HasLen(value) == value.type \in {"array", "string", "object"}

\* quiz.py 154-165: the entries of the files that give questions; an
\* exception of load_questions or of len() ends the call
RECURSIVE EntriesOf(_, _, _)
EntriesOf(files, lecture_files, info) ==
    IF lecture_files = <<>> THEN [raised |-> NoError, lecture_info |-> info]
    ELSE LET filename == Head(lecture_files)
             loaded == load_questions(filename, files[FileOf(filename)])
         IN  IF loaded.raised # NoError
             THEN [raised |-> loaded.raised, lecture_info |-> None]
             ELSE IF ~Truthy(loaded.value)
             THEN EntriesOf(files, Tail(lecture_files), info)
             ELSE IF ~HasLen(loaded.value)
             THEN [raised |-> "TypeError", lecture_info |-> None]
             ELSE EntriesOf(files, Tail(lecture_files),
                     Append(info, [filename |-> filename,
                                   name |-> DisplayName(BaseOf(filename)),
                                   count |-> Len(loaded.value.items)]))

\* quiz.py 147-165, for the order glob listed the files in
get_lecture_info(files, directory, extras, listing) ==
    EntriesOf(files,
              WithExtras(files, directory, find_lecture_files(listing), extras),
              <<>>)

CatalogIdle ==
    /\ fs = <<>>
    /\ extra_files = <<>>
    /\ cat_result = None
    /\ cat_pc = "idle"

InitCatalog ==
    /\ fs \in FileSystems
    /\ extra_files \in SeqsUpTo(ExtraPaths, MaxExtras)
    /\ cat_result = None
    /\ cat_pc = "call"

GetLectureInfoCall ==
    /\ cat_pc = "call"
    /\ \E listing \in Listings(Globbed(fs, SubjectDir)) :
          cat_result' = get_lecture_info(fs, SubjectDir, extra_files, listing)
    /\ cat_pc' = IF cat_result'.raised = NoError THEN "returned" ELSE "raised"
    /\ UNCHANGED <<fs, extra_files, notCatalog>>

(***************************************************************************)
(* main and the two menus  (quiz.py 9-24, 209-319)                         *)
(*                                                                         *)
(* main stops only inside input(): at the prompt of the subject menu, at   *)
(* the prompt of the lecture menu, and at the prompts of the quiz it runs. *)
(* An action is what one line, one interrupt or one end of input at a      *)
(* prompt leads to, up to the next prompt or the end of the program. The   *)
(* calls main makes leave their results where the calls on their own do:   *)
(* get_lecture_info in cat_result, select_questions_evenly in selected,    *)
(* run_quiz in the variables of the run. The files are the environment's:  *)
(* they may change while the program waits at the lecture menu.            *)
(***************************************************************************)
PROVIDED_CN == <<"p", "r", "o", "v", "i", "d", "e", "d", "_", "C", "N">>

\* quiz.py 9-24
SUBJECTS ==
    << [key |-> "philosophy", name |-> "Philosophy",
        directory |-> "phylosophy", extra_files |-> <<>>],
       [key |-> "computer_networks", name |-> "Computer Networks",
        directory |-> "computer_networks",
        extra_files |-> <<Path("computer_networks", PROVIDED_CN)>>] >>

\* the files there can be under the directories of the subjects
MainFiles ==
    { FileOf(Path("phylosophy", LECTURE \o <<"1">>)),
      FileOf(Path("computer_networks", LECTURE \o <<"1">>)),
      FileOf(Path("computer_networks", PROVIDED_CN)) }

\* what a file can be: absent, a JSON array, an object whose "questions" is
\* null, or an object of no or one question
MainSources ==
    { [state |-> "missing"],
      [state |-> "json", data |-> JsonArray(<<>>)],
      [state |-> "json", data |-> JsonQuestionsObject(JsonNull)],
      QuestionFile(0), QuestionFile(1) }

\* the directories and files main can start on: a directory that does not
\* exist has no files
MainFileSystems(directories) ==
    {files \in [MainFiles -> MainSources] :
        \A f \in MainFiles :
            f.dir \notin directories => files[f].state = "missing"}

\* the lines typed at the prompt of a menu
MenuInputs ==
    { <<>>, <<"x">>, <<"0">>, <<" ", "0", " ">>, <<"1">>, <<"2">>, <<"3">>,
      <<"4">>, <<"-", "1">>, <<"1", ".", "5">> }

\* a menu that does not know the choice 0
ExitNotSeen(choice_num) == FALSE

\* quiz.py 223, 254: `if choice_num == 0`
ExitChosen(choice_num) == choice_num = 0

\* a test of the catalog that lets the empty one through
EmptyCatalogUnguarded(info) == FALSE

\* quiz.py 285: `if not lecture_info`
EmptyCatalog(info) == info = <<>>

\* quiz.py 75-94 for the argument qs: the call of run_quiz, up to the first
\* prompt
RunQuizOn(qs) ==
    /\ questions' = qs
    /\ UNCHANGED <<event, answer, answers>>
    /\ IF NoQuestions(qs)
       THEN /\ last_message' = "No questions available!"
            /\ pc' = "returned"
            /\ UNCHANGED <<i, indexed_options, shuffled_options, correct_index, correct_answers,
                           incorrect_answers, displayed, report, result, raised>>
       ELSE \E r \in shuffle_question_options(qs[1]) :
               /\ i' = 1
               /\ indexed_options' = r.indexed_options
            /\ shuffled_options' = r.shuffled_options
               /\ correct_index' = r.correct_index
               /\ displayed' = <<1>>
               /\ correct_answers' = 0
               /\ incorrect_answers' = <<>>
               /\ pc' = "await"
               /\ UNCHANGED <<report, result, raised, last_message>>

\* main goes to p, having printed msg last
MainAt(p, msg) ==
    /\ m_pc' = p
    /\ main_message' = msg
    /\ main_raised' = NoError

\* an exception leaves main
MainRaises(exception) ==
    /\ m_pc' = "raised"
    /\ main_raised' = exception
    /\ UNCHANGED main_message

\* quiz.py 276-290: the subject is chosen; up to the prompt of the lecture
\* menu
AfterSubject(s) ==
    IF s.directory \notin dirs
    THEN /\ MainAt("returned", "Error: Subject directory not found!")
         /\ UNCHANGED <<extra_files, cat_result, cat_pc>>
    ELSE \E listing \in Listings(Globbed(fs, s.directory)) :
            LET got == get_lecture_info(fs, s.directory, s.extra_files, listing)
            IN  /\ extra_files' = s.extra_files
                /\ cat_result' = got
                /\ cat_pc' = IF got.raised = NoError THEN "returned" ELSE "raised"
                /\ IF got.raised # NoError THEN MainRaises(got.raised)
                   ELSE IF EmptyCatalog(got.lecture_info)
                   THEN MainAt("returned", "Error: No lecture files found!")
                   ELSE MainAt("lecture_menu", "")

\* what the steps of the subject menu leave alone
notSubjectMenu ==
    <<dirs, fs, files_changed, mode, selection, shVars, selVars, quizVars,
      loadVars, sortVars, scoreVars>>

\* quiz.py 218-230, 270-290: a line is read at the prompt of the subject menu
SubjectMenuLine(line) ==
    /\ m_pc = "subject_menu"
    /\ menu_event' = "line"
    /\ choice' = Strip(line)
    /\ UNCHANGED notSubjectMenu
    /\ LET choice_num == ParseInt(Strip(line))
       IN  IF choice_num.raised # NoError
           THEN /\ MainAt("subject_menu", "Please enter a valid number.")
                /\ UNCHANGED <<subject, extra_files, cat_result, cat_pc>>
           ELSE IF ExitChosen(choice_num.value)
           THEN /\ MainAt("returned", "Goodbye!")
                /\ UNCHANGED <<subject, extra_files, cat_result, cat_pc>>
           ELSE IF 1 <= choice_num.value /\ choice_num.value <= Len(SUBJECTS)
           THEN /\ subject' = SUBJECTS[choice_num.value]
                /\ AfterSubject(SUBJECTS[choice_num.value])
           ELSE /\ MainAt("subject_menu", "Please enter a number between 0 and n.")
                /\ UNCHANGED <<subject, extra_files, cat_result, cat_pc>>

\* quiz.py 231-233, 272-274: the prompt of the subject menu is interrupted
SubjectMenuInterrupt ==
    /\ m_pc = "subject_menu"
    /\ menu_event' = "KeyboardInterrupt"
    /\ MainAt("returned", "Goodbye!")
    /\ UNCHANGED <<choice, subject, extra_files, cat_result, cat_pc, notSubjectMenu>>

\* quiz.py 220: the input ends; input() raises EOFError, which nothing catches
SubjectMenuEndOfInput ==
    /\ m_pc = "subject_menu"
    /\ menu_event' = "EOFError"
    /\ MainRaises("EOFError")
    /\ UNCHANGED <<choice, subject, extra_files, cat_result, cat_pc, notSubjectMenu>>

\* quiz.py 170-172: the exception the loads of the final check end in, if any:
\* load_questions raises, or what it returns is no list to go through
RECURSIVE ReloadRaised(_, _)
ReloadRaised(files, infos) ==
    IF infos = <<>> THEN NoError
    ELSE LET loaded == load_questions(Head(infos).filename,
                                      files[FileOf(Head(infos).filename)])
         IN  IF loaded.raised # NoError THEN loaded.raised
             ELSE IF loaded.value.type # "array" THEN "TypeError"
             ELSE ReloadRaised(files, Tail(infos))

\* the catalog with, for each entry, the number of questions its file holds
\* now
Reloaded(files, infos) ==
    [k \in DOMAIN infos |->
        [infos[k] EXCEPT !.count =
            Len(load_questions(infos[k].filename,
                               files[FileOf(infos[k].filename)]).value.items)]]

\* the record of a question of a file
QuestionAt(files, q) == files[FileOf(q.file)].data.questions.items[q.k]

\* what the steps of the lecture menu leave alone
notLectureMenu ==
    <<dirs, fs, files_changed, subject, extra_files, cat_result, cat_pc, shVars,
      loadVars, sortVars, scoreVars>>

\* quiz.py 298-302, 316-317: the questions of one lecture
LectureMode(filename) ==
    LET loaded == load_questions(filename, fs[FileOf(filename)])
    IN  /\ mode' = "lecture"
        /\ selection' = filename
        /\ UNCHANGED selVars
        /\ IF loaded.raised # NoError
           THEN MainRaises(loaded.raised) /\ UNCHANGED quizVars
           ELSE IF ~Truthy(loaded.value)
           THEN /\ MainAt("returned", "No questions loaded.")
                /\ UNCHANGED quizVars
           ELSE IF loaded.value.type # "array"
           THEN MainRaises("TypeError") /\ UNCHANGED quizVars
           ELSE /\ MainAt("quiz", "")
                /\ RunQuizOn(loaded.value.items)

\* quiz.py 303-317: the questions of the final check
FinalMode ==
    LET infos == cat_result.lecture_info
        failure == ReloadRaised(fs, infos)
    IN  /\ mode' = "final"
        /\ selection' = None
        /\ IF failure # NoError
           THEN /\ MainRaises(failure)
                /\ UNCHANGED <<selVars, quizVars>>
           ELSE /\ lecture_info' = infos
                /\ total_questions' = FinalCheckTotal
                /\ sel_pc' = "returned"
                /\ selected' \in select_questions_evenly(Reloaded(fs, infos),
                                                         FinalCheckTotal)
                /\ IF selected' = <<>>
                   THEN /\ MainAt("returned",
                                  "Error: Could not select questions for final check.")
                        /\ UNCHANGED quizVars
                   ELSE /\ MainAt("quiz", "Selected n questions from all lectures.")
                        /\ RunQuizOn([k \in DOMAIN selected' |->
                                         QuestionAt(fs, selected'[k])])

\* quiz.py 249-264, 290-317: a line is read at the prompt of the lecture menu
LectureMenuLine(line) ==
    /\ m_pc = "lecture_menu"
    /\ menu_event' = "line"
    /\ choice' = Strip(line)
    /\ UNCHANGED notLectureMenu
    /\ LET choice_num == ParseInt(Strip(line))
           infos == cat_result.lecture_info
       IN  IF choice_num.raised # NoError
           THEN /\ MainAt("lecture_menu", "Please enter a valid number.")
                /\ UNCHANGED <<mode, selection, selVars, quizVars>>
           ELSE IF ExitChosen(choice_num.value)
           THEN /\ MainAt("returned", "Goodbye!")
                /\ mode' = "exit"
                /\ UNCHANGED <<selection, selVars, quizVars>>
           ELSE IF 1 <= choice_num.value /\ choice_num.value <= Len(infos)
           THEN LectureMode(infos[choice_num.value].filename)
           ELSE IF choice_num.value = Len(infos) + 1
           THEN FinalMode
           ELSE /\ MainAt("lecture_menu", "Please enter a number between 0 and n.")
                /\ UNCHANGED <<mode, selection, selVars, quizVars>>

\* quiz.py 265-267, 292-294: the prompt of the lecture menu is interrupted
LectureMenuInterrupt ==
    /\ m_pc = "lecture_menu"
    /\ menu_event' = "KeyboardInterrupt"
    /\ MainAt("returned", "Goodbye!")
    /\ mode' = "exit"
    /\ UNCHANGED <<choice, selection, selVars, quizVars, notLectureMenu>>

\* quiz.py 251: the input ends; input() raises EOFError, which nothing catches
LectureMenuEndOfInput ==
    /\ m_pc = "lecture_menu"
    /\ menu_event' = "EOFError"
    /\ MainRaises("EOFError")
    /\ UNCHANGED <<choice, mode, selection, selVars, quizVars, notLectureMenu>>

\* a file of an existing directory is written anew or removed while the
\* program waits at the lecture menu, once
FilesChange ==
    /\ m_pc = "lecture_menu"
    /\ ~files_changed
    /\ files_changed' = TRUE
    /\ \E f \in DOMAIN fs, source \in MainSources :
          /\ f.dir \in dirs
          /\ source # fs[f]
          /\ fs' = [fs EXCEPT ![f] = source]
    /\ UNCHANGED <<m_pc, dirs, subject, mode, selection, choice, menu_event,
                   main_message, main_raised, extra_files, cat_result, cat_pc,
                   shVars, selVars, quizVars, loadVars, sortVars, scoreVars>>

MainIdle ==
    /\ m_pc = "idle"
    /\ dirs = {}
    /\ subject = None
    /\ mode = "none"
    /\ selection = None
    /\ choice = <<>>
    /\ menu_event = "none"
    /\ main_message = ""
    /\ main_raised = NoError
    /\ files_changed = FALSE

\* quiz.py 269-270, 209-220: main is called; up to the prompt of the subject
\* menu
InitMain ==
    /\ m_pc = "subject_menu"
    /\ dirs \in SUBSET {SUBJECTS[k].directory : k \in DOMAIN SUBJECTS}
    /\ fs \in MainFileSystems(dirs)
    /\ extra_files = <<>>
    /\ cat_result = None
    /\ cat_pc = "idle"
    /\ subject = None
    /\ mode = "none"
    /\ selection = None
    /\ choice = <<>>
    /\ menu_event = "none"
    /\ main_message = ""
    /\ main_raised = NoError
    /\ files_changed = FALSE

(***************************************************************************)
(* Specifications.                                                         *)
(***************************************************************************)
InitShuffleSpec == InitShuffle /\ SelectIdle /\ QuizIdle /\ LoadIdle /\ SortIdle /\ CatalogIdle /\ MainIdle /\ ScoreIdle

NextShuffle == ShuffleCall

SpecShuffle == InitShuffleSpec /\ [][NextShuffle]_vars

InitSelectSpec == InitSelect /\ ShuffleIdle /\ QuizIdle /\ LoadIdle /\ SortIdle /\ CatalogIdle /\ MainIdle /\ ScoreIdle

NextSelect == SelectCall

SpecSelect == InitSelectSpec /\ [][NextSelect]_vars

InitQuizSpec == InitQuiz /\ ShuffleIdle /\ SelectIdle /\ LoadIdle /\ SortIdle /\ CatalogIdle /\ MainIdle /\ ScoreIdle

NextQuiz ==
    \/ RunQuizCall
    \/ \E line \in Inputs : AnswerLine(line)
    \/ AnswerInterrupt
    \/ AnswerEndOfInput

SpecQuiz == InitQuizSpec /\ [][NextQuiz]_vars

\* the run with the program running on: the call goes up to its first prompt.
\* What is typed at a prompt, and when, is the user's.
SpecQuizLive == InitQuizSpec /\ [][NextQuiz]_vars /\ WF_vars(RunQuizCall)

InitLoadSpec == InitLoad /\ ShuffleIdle /\ SelectIdle /\ QuizIdle /\ SortIdle /\ CatalogIdle /\ MainIdle /\ ScoreIdle

NextLoad == LoadCall

SpecLoad == InitLoadSpec /\ [][NextLoad]_vars

InitSortSpec == InitSort /\ ShuffleIdle /\ SelectIdle /\ QuizIdle /\ LoadIdle /\ CatalogIdle /\ MainIdle /\ ScoreIdle

NextSort == SortCall

SpecSort == InitSortSpec /\ [][NextSort]_vars

InitCatalogSpec ==
    InitCatalog /\ ShuffleIdle /\ SelectIdle /\ QuizIdle /\ LoadIdle /\ SortIdle /\ MainIdle /\ ScoreIdle

NextCatalog == GetLectureInfoCall

SpecCatalog == InitCatalogSpec /\ [][NextCatalog]_vars

InitMainSpec == InitMain /\ ShuffleIdle /\ SelectIdle /\ QuizIdle /\ LoadIdle /\ SortIdle /\ ScoreIdle

NextMain ==
    \/ \E line \in MenuInputs : SubjectMenuLine(line)
    \/ SubjectMenuInterrupt
    \/ SubjectMenuEndOfInput
    \/ \E line \in MenuInputs : LectureMenuLine(line)
    \/ LectureMenuInterrupt
    \/ LectureMenuEndOfInput
    \/ FilesChange
    \/ \E line \in Inputs : AnswerLine(line)
    \/ AnswerInterrupt
    \/ AnswerEndOfInput

SpecMain == InitMainSpec /\ [][NextMain]_vars

InitScoreSpec ==
    InitScore /\ ShuffleIdle /\ SelectIdle /\ QuizIdle /\ LoadIdle /\ SortIdle
        /\ CatalogIdle /\ MainIdle

NextScore == ScoreLine

SpecScore == InitScoreSpec /\ [][NextScore]_vars

(***************************************************************************)
(* The shuffler's contract.                                                *)
(***************************************************************************)
ValidIndex(question_data) ==
    question_data.correct_answer \in 0..(Len(question_data.options) - 1)

\* C1: when correct_answer is an index of the options, the call returns a
\* permutation of the options (same length, every text as often as before)
\* and an index at which the returned list holds the option that stood at
\* correct_answer.
C1_ShuffleIsPermutation ==
    (sh_pc = "returned" /\ ValidIndex(sh_question)) =>
        /\ sh_result.raised = NoError
        /\ Len(sh_result.shuffled_options) = Len(sh_question.options)
        /\ \A t \in OptionTexts :
              Occurrences(sh_result.shuffled_options, t)
                  = Occurrences(sh_question.options, t)
        /\ sh_result.correct_index \in 0..(Len(sh_question.options) - 1)
        /\ sh_result.shuffled_options[sh_result.correct_index + 1]
              = sh_question.options[sh_question.correct_answer + 1]

\* a call that moved the correct option to another place, among options
\* that do not all read the same
C1_Witness ==
    /\ sh_pc = "returned"
    /\ ValidIndex(sh_question)
    /\ sh_result.raised = NoError
    /\ sh_result.correct_index # sh_question.correct_answer
    /\ sh_result.shuffled_options # sh_question.options

(***************************************************************************)
(* The even selection's contract, in the words of the specification:       *)
(* entry k (1-based here) is allocated base + 1 when k <= total mod n and  *)
(* base otherwise.                                                         *)
(***************************************************************************)
Allocation(k) ==
    (total_questions \div Len(lecture_info))
        + (IF k <= total_questions % Len(lecture_info) THEN 1 ELSE 0)

Shortfall(k) == Max(0, Allocation(k) - lecture_info[k].count)

TotalAvailable == SumSeq([k \in DOMAIN lecture_info |-> lecture_info[k].count])

\* how many places of the returned list hold a question of entry k's source
ContributionOf(k) ==
    Cardinality({j \in DOMAIN selected : selected[j].file = lecture_info[k].filename})

NoQuestionTwice ==
    \A a, b \in DOMAIN selected : a # b => selected[a] # selected[b]

\* C2: on a non-empty catalog the returned list is as long as total_questions
\* minus the sum of the entries' shortfalls.
C2_LengthIsTargetMinusShortfalls ==
    (sel_pc = "returned" /\ lecture_info # <<>>) =>
        Len(selected) = total_questions
            - SumSeq([k \in DOMAIN lecture_info |-> Shortfall(k)])

\* C3, as claimed: on a non-empty catalog the returned list has
\* min(total_questions, sum of the counts) questions.
C3_SizeIsMinOfTargetAndAvailable ==
    (sel_pc = "returned" /\ lecture_info # <<>>) =>
        Len(selected) = Min(total_questions, TotalAvailable)

\* C3, amended: the returned list has at most total_questions questions, at
\* most min(total_questions, sum of the counts) different ones, and exactly
\* total_questions when every entry has its allocation available.
C3_SizeAtMostTarget ==
    (sel_pc = "returned" /\ lecture_info # <<>>) =>
        /\ Len(selected) <= total_questions
        /\ Cardinality(Range(selected)) <= Min(total_questions, TotalAvailable)
        /\ (\A k \in DOMAIN lecture_info : Shortfall(k) = 0)
              => Len(selected) = total_questions

\* a call on a catalog with enough questions in all, one entry short of its
\* allocation: fewer than min(total_questions, available) are returned
C3_Witness ==
    /\ sel_pc = "returned"
    /\ lecture_info # <<>>
    /\ \E k \in DOMAIN lecture_info : Shortfall(k) > 0
    /\ \E k \in DOMAIN lecture_info : lecture_info[k].count > Allocation(k)
    /\ selected # <<>>
    /\ Len(selected) < Min(total_questions, TotalAvailable)

\* C4: entry k contributes exactly min(count, allocation) questions, all of
\* its own source, and no question is returned twice, whatever the names of
\* the entries.
C4_EachEntryContributesItsShare ==
    (sel_pc = "returned" /\ lecture_info # <<>>) =>
        /\ \A k \in DOMAIN lecture_info :
              ContributionOf(k) = Min(lecture_info[k].count, Allocation(k))
        /\ NoQuestionTwice

\* C2 and C4 on the catalogs whose entries all have different names
DistinctNames ==
    \A a, b \in DOMAIN lecture_info :
        a # b => lecture_info[a].name # lecture_info[b].name

SharesHoldForDistinctNames ==
    DistinctNames => (C2_LengthIsTargetMinusShortfalls
                        /\ C4_EachEntryContributesItsShare)

\* the catalog of the specification's scenario: counts 5, 3 and 10
ScenarioCatalog ==
    << [filename |-> Path(SubjectDir, LECTURE \o <<"1">>),
        name |-> DisplayName(LECTURE \o <<"1">>), count |-> 5],
       [filename |-> Path(SubjectDir, LECTURE \o <<"2">>),
        name |-> DisplayName(LECTURE \o <<"2">>), count |-> 3],
       [filename |-> Path(SubjectDir, LECTURE \o <<"3">>),
        name |-> DisplayName(LECTURE \o <<"3">>), count |-> 10] >>

\* the returned list is as long as the counts taken add up to, and in the
\* scenario the counts taken are 5, 3 and 10: 18 questions of the 40 asked
LengthIsSumOfCountsTaken ==
    /\ (sel_pc = "returned" /\ lecture_info # <<>>) =>
          Len(selected) =
              SumSeq(CountsTaken(lecture_info,
                                 total_questions \div Len(lecture_info), 1,
                                 total_questions % Len(lecture_info)))
    /\ CountsTaken(ScenarioCatalog, FinalCheckTotal \div Len(ScenarioCatalog), 1,
                   FinalCheckTotal % Len(ScenarioCatalog)) = <<5, 3, 10>>

(***************************************************************************)
(* The quiz run's contract.                                                *)
(***************************************************************************)
\* the questions 1..n, in order
FirstQuestions(n) == [k \in 1..n |-> k]

\* a line that is no selection among n options: no integer, or an integer
\* outside 1..n
NoSelection(line, n) ==
    \/ ParseInt(line).raised # NoError
    \/ ParseInt(line).value < 1
    \/ ParseInt(line).value > n

\* what the run has scored and shown
Progress == <<i, indexed_options, shuffled_options, correct_index, correct_answers,
              incorrect_answers, answers, displayed, report, result, raised>>

Cancelled == pc = "returned" /\ event = "KeyboardInterrupt"

\* C5: an interrupt at the prompt of question k makes run_quiz return at
\* once with no score: nothing is returned or raised, no report is printed,
\* the questions shown are 1..k and no others, and every mistake recorded is
\* of a question before k.
C5_InterruptReturnsNoScore ==
    /\ [][(pc = "await" /\ event' = "KeyboardInterrupt") =>
            /\ pc' = "returned"
            /\ last_message' = "Quiz cancelled by user."
            /\ UNCHANGED Progress]_vars
    /\ [](Cancelled =>
            /\ result = None
            /\ report = None
            /\ raised = NoError
            /\ i \in 1..Len(questions)
            /\ displayed = FirstQuestions(i)
            /\ Len(answers) = i - 1
            /\ \A m \in DOMAIN incorrect_answers :
                  incorrect_answers[m].question_num < i)

\* the second question interrupted, after a mistake on the first and a line
\* that was no number
C5_Witness ==
    /\ Cancelled
    /\ i = 2
    /\ Len(incorrect_answers) = 1
    /\ ParseInt(answer).raised = "ValueError"

\* C6: a run on no questions says that none are available and returns no
\* score without raising, and a percentage is computed only for a total of
\* at least 1.
C6_EmptyRunGivesNoScore ==
    /\ (questions = <<>> /\ pc # "call") =>
          /\ pc = "returned"
          /\ last_message = "No questions available!"
          /\ result = None
          /\ report = None
          /\ raised = NoError
          /\ displayed = <<>>
    /\ report # None => (report.total = Len(questions) /\ report.total >= 1)
    /\ raised # "ZeroDivisionError"

\* the run on no questions, returned
C6_Witness ==
    /\ questions = <<>>
    /\ pc = "returned"
    /\ last_message = "No questions available!"

\* C7: a line that is no integer, or an integer outside 1..option_count,
\* only brings the prompt back: the run goes on waiting and nothing is
\* scored; and every selection scored is the line's integer less one, in
\* 0..option_count - 1.
C7_InvalidLineOnlyReprompts ==
    /\ [][(pc = "await" /\ event' = "line"
              /\ NoSelection(answer', Len(shuffled_options))) =>
            /\ pc' = "await"
            /\ UNCHANGED Progress]_vars
    /\ [][answers' # answers =>
            /\ pc = "await"
            /\ event' = "line"
            /\ ~NoSelection(answer', Len(shuffled_options))
            /\ answers' = Append(answers, ParseInt(answer').value - 1)]_vars
    /\ [](\A k \in DOMAIN answers :
            answers[k] \in 0..(Len(questions[k].options) - 1))

\* the prompt of the second question shown again after an integer out of
\* range
C7_Witness ==
    /\ pc = "await"
    /\ event = "line"
    /\ i = 2
    /\ ParseInt(answer).raised = NoError
    /\ ParseInt(answer).value > Len(shuffled_options)
    /\ last_message = "Please enter a number between 1 and n."
    /\ Len(answers) = 1

(***************************************************************************)
(* The loader's contract.                                                  *)
(***************************************************************************)
\* an object whose "questions" member is an array
WellFormedSource(source) ==
    /\ source.state = "json"
    /\ source.data.type = "object"
    /\ source.data.has_questions
    /\ source.data.questions.type = "array"

\* C8: load_questions never raises: whatever the source, it returns a
\* sequence, the empty one when the source is missing or malformed.
C8_LoadNeverRaises ==
    ld_pc # "call" =>
        /\ ld_pc = "returned"
        /\ ld_result.raised = NoError
        /\ ld_result.value.type = "array"
        /\ ~WellFormedSource(ld_source) => ld_result.value.items = <<>>

\* what does hold: the two failures that are caught give the empty list and
\* a message that names the file, and a well-formed source gives its
\* questions
LoadOfCaughtFailures ==
    ld_pc # "call" =>
        /\ ld_source.state \in {"missing", "unparsable"} =>
              /\ ld_pc = "returned"
              /\ ld_result.value = JsonArray(<<>>)
              /\ ld_result.message # None
              /\ ld_result.message.filename = ld_filename
        /\ WellFormedSource(ld_source) =>
              /\ ld_pc = "returned"
              /\ ld_result.value = ld_source.data.questions

(***************************************************************************)
(* The sort key's contract.                                                *)
(***************************************************************************)
HasShape(base) == MatchLecture(base).matched

NumberN(base) == DecimalValue(MatchLecture(base).group1)

NumberM(base) ==
    IF MatchLecture(base).group2 = <<>> THEN 0
    ELSE DecimalValue(MatchLecture(base).group2)

\* a comes strictly before b in the order the specification describes
ComesBefore(a, b) ==
    IF HasShape(a) /\ HasShape(b)
    THEN \/ NumberN(a) < NumberN(b)
         \/ NumberN(a) = NumberN(b) /\ NumberM(a) < NumberM(b)
         \/ NumberN(a) = NumberN(b) /\ NumberM(a) = NumberM(b)
               /\ StrLess(Lower(a), Lower(b))
    ELSE IF HasShape(a) THEN TRUE
    ELSE IF HasShape(b) THEN FALSE
    ELSE StrLess(Lower(a), Lower(b))

SortedAsDescribed ==
    /\ Len(sorted_names) = Len(names)
    /\ \A x \in Range(names) : Occurrences(sorted_names, x) = Occurrences(names, x)
    /\ \A a, b \in DOMAIN sorted_names :
          a < b => ~ComesBefore(BaseOf(sorted_names[b]), BaseOf(sorted_names[a]))
    /\ names = PathsOf(ExampleNames) => sorted_names = PathsOf(ExampleSorted)

\* C9: sorting with lecture_sort_key orders the names of the lecture shape by
\* N, then M (0 when absent), then lowercase name, puts every other name
\* behind them in lexical order, gives equal keys only to identical names,
\* and sorts the example list as stated.
C9_SortKeyOrdersWithoutTies ==
    sort_pc = "returned" =>
        /\ SortedAsDescribed
        /\ \A a, b \in DOMAIN names :
              lecture_sort_key(names[a]) = lecture_sort_key(names[b])
                  => BaseOf(names[a]) = BaseOf(names[b])

\* what does hold: the order is as described, and names with equal keys
\* differ at most in the case of their letters
SortKeyOrdersUpToCase ==
    sort_pc = "returned" =>
        /\ SortedAsDescribed
        /\ \A a, b \in DOMAIN names :
              lecture_sort_key(names[a]) = lecture_sort_key(names[b])
                  => Lower(BaseOf(names[a])) = Lower(BaseOf(names[b]))

(***************************************************************************)
(* The catalog's contract.                                                 *)
(***************************************************************************)
CatalogKey(k) == lecture_sort_key(cat_result.lecture_info[k].filename)

\* C10: the returned catalog is ordered by the lecture sort key over all its
\* entries, discovered and extra alike: of two entries, the one with the
\* smaller key comes first.
C10_CatalogOrderedByKey ==
    cat_pc = "returned" =>
        \A a, b \in DOMAIN cat_result.lecture_info :
            a < b => ~KeyLess(CatalogKey(b), CatalogKey(a))

\* what does hold: the entries found in the directory are ordered by the
\* key, and the entries of extra files come behind them
DiscoveredAreOrdered ==
    cat_pc = "returned" =>
        LET info == cat_result.lecture_info
            found == {k \in DOMAIN info : info[k].filename \in Globbed(fs, SubjectDir)}
        IN  /\ \A a, b \in found : a < b => ~KeyLess(CatalogKey(b), CatalogKey(a))
            /\ \A a \in found, b \in DOMAIN info \ found : a < b

\* the candidate sources of the call: the files glob finds and the extra
\* files, as full paths
Candidates ==
    Globbed(fs, SubjectDir)
        \cup {FullPath(SubjectDir, extra_files[k]) : k \in DOMAIN extra_files}

\* how many questions loading a source yields
QuestionsLoaded(path) ==
    LET loaded == load_questions(path, fs[FileOf(path)])
    IN  IF loaded.raised = NoError /\ loaded.value.type = "array"
        THEN Len(loaded.value.items) ELSE 0

\* the paths of the entries of the returned catalog
CatalogPaths ==
    {cat_result.lecture_info[k].filename : k \in DOMAIN cat_result.lecture_info}

\* C11: a candidate source is in the catalog get_lecture_info returns if and
\* only if loading it yields at least one question, and the count of every
\* entry is the number of questions loaded from its source, which is >= 1.
C11_InCatalogIffQuestions ==
    cat_pc = "returned" =>
        /\ \A c \in Candidates : c \in CatalogPaths <=> QuestionsLoaded(c) >= 1
        /\ \A k \in DOMAIN cat_result.lecture_info :
              LET entry == cat_result.lecture_info[k]
              IN  /\ entry.filename \in Candidates
                  /\ entry.count = QuestionsLoaded(entry.filename)
                  /\ entry.count >= 1

\* a catalog is returned that leaves out a file that exists and gives no
\* question, and holds a file of the directory and an extra file, one of
\* them with two questions
C11_Witness ==
    /\ cat_pc = "returned"
    /\ \E c \in Candidates :
          Exists(fs, c) /\ QuestionsLoaded(c) = 0 /\ c \notin CatalogPaths
    /\ \E j, k \in DOMAIN cat_result.lecture_info :
          /\ cat_result.lecture_info[j].filename.dir = SubjectDir
          /\ cat_result.lecture_info[k].filename.dir = "other"
          /\ cat_result.lecture_info[j].count = 2

(***************************************************************************)
(* The contract of main and the menus.                                     *)
(***************************************************************************)
\* no question was presented and no score produced
NoQuiz ==
    /\ pc = "idle"
    /\ displayed = <<>>
    /\ answers = <<>>
    /\ report = None
    /\ result = None

\* main has ended normally, having printed msg last
EndedWith(msg) ==
    /\ m_pc = "returned"
    /\ main_raised = NoError
    /\ main_message = msg

\* the lecture chosen was loaded and gave no question
LectureYieldsNone ==
    /\ mode = "lecture"
    /\ LET loaded == load_questions(selection, fs[FileOf(selection)])
       IN  /\ loaded.raised = NoError
           /\ loaded.value.type \in {"null", "array"}
           /\ loaded.value.items = <<>>

\* C12: main starts a quiz run only on a non-empty question set: when the
\* catalog is empty, or the lecture chosen or the selection of the final
\* check gives no question, main prints a message and ends normally, no
\* question presented and no score produced.
C12_QuizOnlyOnQuestions ==
    /\ pc # "idle" => (m_pc = "quiz" /\ questions # <<>>)
    /\ m_pc = "quiz" => (pc # "idle" /\ questions # <<>>)
    /\ (cat_pc = "returned" /\ cat_result.lecture_info = <<>>) =>
          (EndedWith("Error: No lecture files found!") /\ NoQuiz)
    /\ LectureYieldsNone => (EndedWith("No questions loaded.") /\ NoQuiz)
    /\ (mode = "final" /\ sel_pc = "returned" /\ selected = <<>>) =>
          /\ EndedWith("Error: Could not select questions for final check.")
          /\ NoQuiz

\* the final check chosen on a catalog whose files have lost their questions
\* since: nothing is selected and main ends
C12_Witness ==
    /\ mode = "final"
    /\ sel_pc = "returned"
    /\ selected = <<>>
    /\ cat_result.lecture_info # <<>>
    /\ files_changed
    /\ m_pc = "returned"

\* main waits at the prompt of a menu
AtMenu == m_pc \in {"subject_menu", "lecture_menu"}

\* the largest choice of the menu main waits at
LastChoice ==
    IF m_pc = "subject_menu" THEN Len(SUBJECTS)
    ELSE Len(cat_result.lecture_info) + 1

\* a line that is no choice of a menu whose choices are 0..n: no integer, or
\* an integer outside 0..n
NoChoice(line, n) ==
    \/ ParseInt(line).raised # NoError
    \/ ParseInt(line).value < 0
    \/ ParseInt(line).value > n

\* what main has chosen, loaded and run
Chosen == <<subject, mode, selection, extra_files, cat_result, cat_pc, selVars,
            quizVars>>

\* C13: at either menu, the choice 0 or an interrupt of the prompt ends the
\* program normally with "Goodbye!", no question presented and no score
\* produced, from every state the menu can be in (so whatever was typed
\* before); a line that is no integer, or an integer outside the choices,
\* only brings the prompt back: nothing is chosen and the program goes on
\* waiting at the same menu.
C13_MenuExitAndReprompt ==
    /\ [][(AtMenu /\ menu_event' = "line" /\ ParseInt(choice').raised = NoError
              /\ ParseInt(choice').value = 0) =>
            /\ m_pc' = "returned"
            /\ main_raised' = NoError
            /\ main_message' = "Goodbye!"
            /\ NoQuiz'
            /\ UNCHANGED <<subject, selection, extra_files, cat_result, cat_pc,
                           selVars, quizVars>>]_vars
    /\ [][(AtMenu /\ menu_event' = "KeyboardInterrupt") =>
            /\ m_pc' = "returned"
            /\ main_raised' = NoError
            /\ main_message' = "Goodbye!"
            /\ NoQuiz'
            /\ UNCHANGED <<subject, selection, extra_files, cat_result, cat_pc,
                           selVars, quizVars>>]_vars
    /\ [][(AtMenu /\ menu_event' = "line" /\ NoChoice(choice', LastChoice)) =>
            /\ m_pc' = m_pc
            /\ main_raised' = NoError
            /\ UNCHANGED Chosen]_vars
    /\ [](AtMenu => NoQuiz)

\* the lecture menu left by the choice 0
C13_Witness ==
    /\ m_pc = "returned"
    /\ mode = "exit"
    /\ subject # None
    /\ menu_event = "line"
    /\ choice = <<"0">>
    /\ main_message = "Goodbye!"
    /\ NoQuiz

(***************************************************************************)
(* The score line's contract.                                              *)
(***************************************************************************)
\* tenths is correct/total*100 rounded to one decimal place: no tenth of a
\* percent is nearer to the exact quotient
RoundedToOneDecimal(tenths, correct, total) ==
    LET excess == tenths * total - 1000 * correct
    IN  2 * excess <= total /\ 2 * excess >= 0 - total

\* C14: for a total of at least 1, the percentage of the score line is
\* correct/total*100 rounded to one decimal place (a tenth nearest to the
\* quotient; of two equally near, one of them); for 2 correct of 3 it is
\* 66.7.
C14_PercentRoundedToOneDecimal ==
    score_pc = "printed" =>
        /\ RoundedToOneDecimal(score_percent, score_correct, score_total)
        /\ (score_correct = 2 /\ score_total = 3) => score_percent = 667

\* 2 of 3: 66.7 is shown
C14_Witness ==
    /\ score_pc = "printed"
    /\ score_correct = 2
    /\ score_total = 3
    /\ score_percent = 667

\* the same in the report of a completed run, whose counts are those of the
\* run
ReportPercentIsRounded ==
    report # None =>
        /\ report.total = Len(questions)
        /\ report.correct = correct_answers
        /\ RoundedToOneDecimal(report.percent_tenths, report.correct, report.total)

\* on a tie the line shows the even tenth when the division is exact (1 of
\* 16 is 6.25 and shows as 6.2), and either tenth when it is not (23 of 80
\* is 28.75 and shows as 28.7, 49 of 80 is 61.25 and shows as 61.3)
TieShowsEitherTenth ==
    score_pc = "printed" =>
        /\ (score_correct = 1 /\ score_total = 16) => score_percent = 62
        /\ (score_correct = 23 /\ score_total = 80) => score_percent \in {287, 288}

(***************************************************************************)
(* The catalog's contract on extra sources.                                *)
(***************************************************************************)
\* C15: no source is twice in the catalog get_lecture_info returns: two
\* entries never lead to the same file, however the paths are written.
C15_NoSourceTwice ==
    cat_pc = "returned" =>
        \A j, k \in DOMAIN cat_result.lecture_info :
            j # k => FileOf(cat_result.lecture_info[j].filename)
                        # FileOf(cat_result.lecture_info[k].filename)

\* what does hold: no path is twice in the catalog as the same string
NoPathTwice ==
    cat_pc = "returned" =>
        \A j, k \in DOMAIN cat_result.lecture_info :
            j # k => cat_result.lecture_info[j].filename
                        # cat_result.lecture_info[k].filename

(***************************************************************************)
(* The scoring of an answer.                                               *)
(***************************************************************************)
\* the index, in the options of the question as it was given, of the option
\* the user picked from the shuffled list of question i
PickedOriginal(user_answer) == indexed_options[user_answer + 1][1]

\* C16: when a question is answered, the correct count goes up by one, and
\* no mistake is recorded, if and only if the option picked from the
\* shuffled list is the one that stood at correct_answer in the question as
\* given; otherwise the count stays and exactly one mistake entry is
\* appended, with the question's number and text, the text of the option
\* picked and the text of the option at correct_answer.
C16_ScoredAgainstOriginalOption ==
    [][answers' # answers =>
        LET user_answer == answers'[Len(answers')]
            question_data == questions[i]
            picked == PickedOriginal(user_answer)
        IN  /\ Len(answers') = Len(answers) + 1
            /\ Len(answers') = i
            /\ question_data.options[picked + 1] = shuffled_options[user_answer + 1]
            /\ IF picked = question_data.correct_answer
               THEN /\ correct_answers' = correct_answers + 1
                    /\ incorrect_answers' = incorrect_answers
               ELSE /\ correct_answers' = correct_answers
                    /\ incorrect_answers' =
                          Append(incorrect_answers,
                                 [question_num |-> i,
                                  question |-> question_data.question,
                                  your_answer |-> question_data.options[picked + 1],
                                  correct_answer |->
                                      question_data.options[
                                          question_data.correct_answer + 1]])]_vars

\* a first question answered correctly from a shuffled list in which the
\* correct option has moved, then a second question with two options of one
\* text answered with the wrong one of the two
C16_Witness ==
    /\ Len(answers) = 2
    /\ correct_answers = 1
    /\ answers[1] # questions[1].correct_answer
    /\ Len(incorrect_answers) = 1
    /\ incorrect_answers[1].question_num = 2
    /\ incorrect_answers[1].your_answer = incorrect_answers[1].correct_answer

(***************************************************************************)
(* The counts of a run.                                                    *)
(***************************************************************************)
\* the run has been called
Running == pc \in {"await", "returned", "raised"}

\* run_quiz has returned from its last line
Completed == pc = "returned" /\ result # None

\* C17: in every state of a run the correct count plus the number of
\* mistake entries is the number of questions answered so far, and the
\* mistake entries are of questions answered, in strictly increasing
\* position; when the run completes, correct count plus mistakes is the
\* total, and the pair returned is (correct, total) with
\* 0 <= correct <= total.
C17_CountsAddUp ==
    /\ Running =>
          /\ correct_answers + Len(incorrect_answers) = Len(answers)
          /\ Len(answers) <= Len(questions)
          /\ pc = "await" => Len(answers) = i - 1
          /\ \A m \in DOMAIN incorrect_answers :
                incorrect_answers[m].question_num \in 1..Len(answers)
          /\ \A m, n \in DOMAIN incorrect_answers :
                m < n => incorrect_answers[m].question_num
                            < incorrect_answers[n].question_num
    /\ Completed =>
          /\ Len(answers) = Len(questions)
          /\ correct_answers + Len(incorrect_answers) = Len(questions)
          /\ result = <<correct_answers, Len(questions)>>
          /\ 0 <= result[1] /\ result[1] <= result[2]
          /\ report.incorrect = Len(incorrect_answers)
          /\ report.mistakes = incorrect_answers

\* a run of two questions completed with both answered wrongly
C17_Witness ==
    /\ Completed
    /\ Len(questions) = 2
    /\ Len(incorrect_answers) = 2
    /\ result = <<0, 2>>

(***************************************************************************)
(* The course of a run.                                                    *)
(***************************************************************************)
\* the prompt of question k is waiting
PromptOf(k) == pc = "await" /\ i = k

\* the prompt of question k has received a selection in 1..option_count or
\* an interrupt
Received(k) == Len(answers) >= k \/ (Cancelled /\ i = k)

\* every answer prompt eventually receives a selection or an interrupt
EveryPromptReceives ==
    \A k \in 1..MaxQuestions : PromptOf(k) ~> Received(k)

\* the same, told by what a prompt can receive besides: lines that are no
\* selection, for ever, or the end of input. No prompt waits for ever and
\* none meets the end of input.
NoPromptLeftWaiting ==
    []<>(pc # "await") /\ [](event # "EOFError")

\* the two ways of telling it agree on every run
ReceivingLeavesNoneWaiting == EveryPromptReceives => NoPromptLeftWaiting

NoneWaitingMeansReceiving == NoPromptLeftWaiting => EveryPromptReceives

\* C18: a run over a non-empty sequence presents the questions one at a
\* time in sequence order, each at most once, the question of the prompt
\* being the last one presented; if every answer prompt eventually receives
\* a selection in 1..option_count or an interrupt (NoPromptLeftWaiting,
\* which says the same of every run), the run eventually
\* completes, all questions scored, or is cancelled; and a run that has
\* ended has completed exactly when no prompt was interrupted.
C18_RunInOrderToAnEnd ==
    /\ [](Running =>
            /\ displayed = FirstQuestions(Len(displayed))
            /\ Len(displayed) <= Len(questions)
            /\ pc = "await" => (Len(displayed) = i /\ Len(answers) = i - 1))
    /\ [][displayed' # displayed =>
            displayed' = Append(displayed, Len(displayed) + 1)]_vars
    /\ [](Completed => (Len(answers) = Len(questions)
                          /\ Len(displayed) = Len(questions)))
    /\ []((pc = "returned" /\ questions # <<>>) =>
            (Completed <=> event # "KeyboardInterrupt"))
    /\ [](Completed => ~Cancelled)
    /\ (questions # <<>> /\ NoPromptLeftWaiting) => <>(Completed \/ Cancelled)

\* a run of two questions completed after a line that was no number
C18_Witness ==
    /\ Completed
    /\ Len(questions) = 2
    /\ displayed = <<1, 2>>
    /\ Len(answers) = 2
    /\ event = "line"
====
